---- MODULE Spec2Model ----
(***************************************************************************)
(* A model of the compare_structs! macro of the cmp crate (src/src/lib.rs). *)
(*                                                                         *)
(* One invocation of the macro is a run of the state machine: the macro    *)
(* rules are matched against the argument list (lines 123, 143, 188), the  *)
(* matching arm is type-checked, and the expansion is then executed one    *)
(* statement at a time.  `diffs` is the String the expansion builds: it is *)
(* kept as the sequence of the chunks given to push_str, and Concat gives  *)
(* the text the final assertion prints.                                    *)
(***************************************************************************)
EXTENDS Integers, Sequences, FiniteSets, TLC

VARIABLES
    serde,          \* cfg(feature = "serde") of the build (lines 120, 140)
    expected,       \* the value of the macro's $expected argument
    actual,         \* the value of the macro's $actual argument
    fields,         \* the macro's $field list, in the order written
    pc,             \* position in the expansion
    i,              \* index of the repetition / loop iteration in progress
    expected_val,   \* serde_json::to_value(&$expected) (line 144)
    actual_val,     \* serde_json::to_value(&$actual)   (line 146)
    diffs,          \* the String `diffs`, as the chunks pushed so far
    outcome,        \* "running", "pass", "assertion_failed", "expect_failed"
                    \* or "compile_error"
    message,        \* the panic message, "" when there is none
    prev            \* the arguments and results of the finished invocations

vars == <<serde, expected, actual, fields, pc, i, expected_val, actual_val,
          diffs, outcome, message, prev>>

(***************************************************************************)
(* Bounds of the model.                                                    *)
(***************************************************************************)
MaxFields == 3      \* longest $field list that is tried

(***************************************************************************)
(* Native values.  The fields are those of the structs A and B of the      *)
(* tests: a: i32, b: &str, and c, kept to one f64 instead of               *)
(* [(f64, f32); 2].                                                        *)
(***************************************************************************)
I32(n) == [t |-> "i32", v |-> n]
Str(k) == [t |-> "str", v |-> k]
F64(tenths) == [t |-> "f64", v |-> tenths]
NAN == [t |-> "f64::NAN", v |-> 0]

\* The string literals a field of type &str takes (index into this table).
StrLit == <<"str", "diff str">>

FieldVals(name) ==
    CASE name = "a" -> {I32(10), I32(11)}
      [] name = "b" -> {Str(1), Str(2)}
      [] name = "c" -> {F64(20), NAN}

IsNaN(x) == x.t = "f64::NAN"

\* Mutant: `==` written for `!=`.
NativeNeInverted(x, y) == ~(IsNaN(x) \/ IsNaN(y) \/ x # y)

\* `x != y` of PartialEq on the field types: f64::ne is true when either is NaN.
NativeNe(x, y) == IsNaN(x) \/ IsNaN(y) \/ x # y

(***************************************************************************)
(* Debug formatting, `{:#?}`.                                              *)
(***************************************************************************)
DigitChar == <<"0", "1", "2", "3", "4", "5", "6", "7", "8", "9">>

RECURSIVE Dec(_)
Dec(n) == IF n < 10 THEN DigitChar[n + 1]
          ELSE Dec(n \div 10) \o DigitChar[(n % 10) + 1]

I32Repr(n) == IF n < 0 THEN "-" \o Dec(-n) ELSE Dec(n)
F64Repr(tenths) == Dec(tenths \div 10) \o "." \o Dec(tenths % 10)
StrRepr(k) == "\"" \o StrLit[k] \o "\""

\* <i32 as Debug>, <&str as Debug>, <f64 as Debug>
Repr(x) ==
    CASE x.t = "i32" -> I32Repr(x.v)
      [] x.t = "str" -> StrRepr(x.v)
      [] x.t = "f64" -> F64Repr(x.v)
      [] x.t = "f64::NAN" -> "NaN"

(***************************************************************************)
(* The values the macro is called with: structs with named fields, in      *)
(* declaration order; a newtype struct W(i32), which has no named field    *)
(* and serializes to a number; a value whose Serialize impl fails.         *)
(***************************************************************************)
Shapes == {<<"a", "b", "c">>, <<"c", "a">>, <<"a", "c">>, <<"b">>}

AllVals == UNION {FieldVals(n) : n \in {"a", "b", "c"}}

StructsOf(shape) ==
    { [kind |-> "struct",
       fields |-> [k \in 1..Len(shape) |-> [name |-> shape[k], val |-> f[k]]]] :
      f \in { g \in [1..Len(shape) -> AllVals] :
                \A k \in 1..Len(shape) : g[k] \in FieldVals(shape[k]) } }

Structs == UNION {StructsOf(s) : s \in Shapes}

Newtype(n) == [kind |-> "newtype", fields |-> <<[name |-> "0", val |-> I32(n)]>>]
Unserializable == [kind |-> "unserializable", fields |-> <<>>]

Inputs == Structs \cup {Newtype(10), Newtype(11), Unserializable}

FieldNames(x) == {x.fields[k].name : k \in 1..Len(x.fields)}

\* $value.$field
Field(x, name) ==
    x.fields[CHOOSE k \in 1..Len(x.fields) : x.fields[k].name = name].val

RECURSIVE SeqsUpTo(_, _)
SeqsUpTo(S, n) ==
    IF n = 0 THEN {<<>>}
    ELSE LET shorter == SeqsUpTo(S, n - 1)
         IN  shorter \cup {Append(s, x) : s \in {t \in shorter : Len(t) = n - 1}, x \in S}

FieldLists == SeqsUpTo({"a", "b", "c"}, MaxFields)

(***************************************************************************)
(* serde_json::Value, as far as the inputs reach: Null, Number (with the   *)
(* variant of its N: PosInt, NegInt, Float), String and Object.  An Object *)
(* is its Map as the sequence of entries in the Map's iteration order.     *)
(***************************************************************************)
JNull == [tag |-> "Null", v |-> 0, entries |-> <<>>]
JPosInt(n) == [tag |-> "PosInt", v |-> n, entries |-> <<>>]
JNegInt(n) == [tag |-> "NegInt", v |-> n, entries |-> <<>>]
JFloat(tenths) == [tag |-> "Float", v |-> tenths, entries |-> <<>>]
JString(k) == [tag |-> "String", v |-> k, entries |-> <<>>]
JObject(es) == [tag |-> "Object", v |-> 0, entries |-> es]
Unset == [tag |-> "unset", v |-> 0, entries |-> <<>>]

\* Serialize for the field types: a NaN has no Number and becomes Null.
SerializePrim(x) ==
    CASE x.t = "i32" -> IF x.v < 0 THEN JNegInt(x.v) ELSE JPosInt(x.v)
      [] x.t = "str" -> JString(x.v)
      [] x.t = "f64" -> JFloat(x.v)
      [] x.t = "f64::NAN" -> JNull

\* serde_json::to_value: Result<Value, Error>.  A derived Serialize of a
\* struct gives an Object with one entry per field, a newtype struct gives
\* the Value of its only field.
StructEntries(x) ==
    [k \in 1..Len(x.fields) |->
        [key |-> x.fields[k].name, val |-> SerializePrim(x.fields[k].val)]]

Reverse(seq) == [k \in 1..Len(seq) |-> seq[Len(seq) + 1 - k]]

\* Mutant: a Map whose iteration order changes from one call to the next.
ToValueUnstableOrder(x) ==
    CASE x.kind = "struct" ->
            [ok |-> TRUE,
             val |-> JObject(IF prev = <<>> THEN StructEntries(x)
                             ELSE Reverse(StructEntries(x)))]
      [] x.kind = "newtype" ->
            [ok |-> TRUE, val |-> SerializePrim(x.fields[1].val)]
      [] x.kind = "unserializable" ->
            [ok |-> FALSE, val |-> Unset]

ToValue(x) ==
    CASE x.kind = "struct" ->
            [ok |-> TRUE, val |-> JObject(StructEntries(x))]
      [] x.kind = "newtype" ->
            [ok |-> TRUE, val |-> SerializePrim(x.fields[1].val)]
      [] x.kind = "unserializable" ->
            [ok |-> FALSE, val |-> Unset]

\* Value::as_object: Some(&map) for an Object, None otherwise.
IsObject(val) == val.tag = "Object"

Keys(map) == {map[k].key : k \in 1..Len(map)}

\* Map::contains_key
ContainsKey(map, key) == key \in Keys(map)

\* Map::get, on a key the map contains
Get(map, key) == map[CHOOSE k \in 1..Len(map) : map[k].key = key].val

\* Mutant: an equality of maps that also compares the order of the entries.
MapEqOrdered(m1, m2) == m1 = m2

\* Map's PartialEq: the same keys with equal values, whatever the order.
MapEq(m1, m2) ==
    /\ Keys(m1) = Keys(m2)
    /\ \A key \in Keys(m1) : Get(m1, key) = Get(m2, key)

\* `x != y` of Value's PartialEq
ValueNe(x, y) ==
    IF IsObject(x) /\ IsObject(y) THEN ~MapEq(x.entries, y.entries)
    ELSE x # y

\* <Value as Debug>, `{:#?}`, of the values a field serializes to
ValueRepr(val) ==
    CASE val.tag = "Null" -> "Null"
      [] val.tag = "PosInt" -> "Number(" \o Dec(val.v) \o ")"
      [] val.tag = "NegInt" -> "Number(-" \o Dec(-val.v) \o ")"
      [] val.tag = "Float" -> "Number(" \o F64Repr(val.v) \o ")"
      [] val.tag = "String" -> "String(" \o StrRepr(val.v) \o ")"

(***************************************************************************)
(* The lines of the report.                                                *)
(***************************************************************************)
\* format!("{}: {:#?} != {:#?}\n", name, expected, actual)
MismatchLine(name, expectedRepr, actualRepr) ==
    name \o ": " \o expectedRepr \o " != " \o actualRepr \o "\n"

\* format!("{}: field missing from actual: {:#?}\n", key, expected)
MissingFromActualLine(key, expectedRepr) ==
    key \o ": field missing from actual: " \o expectedRepr \o "\n"

\* format!("{}: field missing from expected: {:#?}\n", key, actual)
MissingFromExpectedLine(key, actualRepr) ==
    key \o ": field missing from expected: " \o actualRepr \o "\n"

\* The text of a String built by the given push_str calls.
RECURSIVE Concat(_)
Concat(chunks) ==
    IF chunks = <<>> THEN "" ELSE Head(chunks) \o Concat(Tail(chunks))

\* String::is_empty
IsEmpty(chunks) == Concat(chunks) = ""

\* String::new()
NewString == <<>>

(***************************************************************************)
(* The initial state: a build, and the arguments of the first invocation.  *)
(***************************************************************************)
Init ==
    /\ serde \in BOOLEAN
    /\ expected \in Inputs
    /\ actual \in Inputs
    /\ fields \in FieldLists
    /\ pc = "call"
    /\ i = 0
    /\ expected_val = Unset
    /\ actual_val = Unset
    /\ diffs = <<>>
    /\ outcome = "running"
    /\ message = ""
    /\ prev = <<>>

inputs == <<serde, expected, actual, fields, prev>>

(***************************************************************************)
(* Macro matching and type checking.  The selected-fields rule needs at    *)
(* least one field (`$($field:ident),+`); the two-argument rule exists     *)
(* only with the serde feature.                                            *)
(***************************************************************************)
\* Mutant: `$($field:ident),*`, which also matches an empty list.
MatchesSelectedStar == TRUE

\* ($expected:expr, $actual:expr, $($field:ident),+)
MatchesSelected == Len(fields) >= 1

\* ($expected:expr, $actual:expr), under cfg(feature = "serde")
MatchesAllFields == serde /\ Len(fields) = 0

\* `$expected.$field != $actual.$field` type-checks for every listed field
FieldsTypeCheck ==
    \A k \in 1..Len(fields) :
        /\ expected.kind = "struct" /\ fields[k] \in FieldNames(expected)
        /\ actual.kind = "struct" /\ fields[k] \in FieldNames(actual)

CompileError ==
    /\ pc = "call"
    /\ \/ ~MatchesAllFields /\ ~MatchesSelected
       \/ ~MatchesAllFields /\ MatchesSelected /\ ~FieldsTypeCheck
    /\ pc' = "done"
    /\ outcome' = "compile_error"
    /\ UNCHANGED <<i, expected_val, actual_val, diffs, message, inputs>>

(***************************************************************************)
(* The selected-fields arm (lines 123-137 and 188-202).                    *)
(***************************************************************************)
EnterSelected ==
    /\ pc = "call"
    /\ ~MatchesAllFields /\ MatchesSelected /\ FieldsTypeCheck
    /\ diffs' = NewString
    /\ i' = 1
    /\ pc' = "selected"
    /\ UNCHANGED <<expected_val, actual_val, outcome, message, inputs>>

\* Mutant: the whole values are compared instead of the field.
SelectedPushWhole(chunks, name) ==
    IF expected # actual
    THEN Append(chunks, MismatchLine(name, Repr(Field(expected, name)),
                                           Repr(Field(actual, name))))
    ELSE chunks

\* Mutant: a field already reported is not reported again.
SelectedPushOnce(chunks, name) ==
    LET line == MismatchLine(name, Repr(Field(expected, name)),
                                   Repr(Field(actual, name)))
    IN  IF NativeNe(Field(expected, name), Field(actual, name))
           /\ \A k \in 1..Len(chunks) : chunks[k] # line
        THEN Append(chunks, line)
        ELSE chunks

\* One repetition of $( if $expected.$field != $actual.$field { ... } )+
SelectedPush(chunks, name) ==
    IF NativeNe(Field(expected, name), Field(actual, name))
    THEN Append(chunks, MismatchLine(name, Repr(Field(expected, name)),
                                           Repr(Field(actual, name))))
    ELSE chunks

SelectedField ==
    /\ pc = "selected"
    /\ i <= Len(fields)
    /\ diffs' = SelectedPush(diffs, fields[i])
    /\ i' = i + 1
    /\ UNCHANGED <<pc, expected_val, actual_val, outcome, message, inputs>>

\* Mutant: the assertion fires on an empty `diffs` as well.
AssertOutcomeAlways(chunks) == "assertion_failed"

\* assert!(diffs.is_empty(), "{diffs}")
AssertOutcome(chunks) == IF IsEmpty(chunks) THEN "pass" ELSE "assertion_failed"
AssertMessage(chunks) == Concat(chunks)

SelectedAssert ==
    /\ pc = "selected"
    /\ i > Len(fields)
    /\ outcome' = AssertOutcome(diffs)
    /\ message' = AssertMessage(diffs)
    /\ pc' = "done"
    /\ UNCHANGED <<i, expected_val, actual_val, diffs, inputs>>

(***************************************************************************)
(* The all-fields arm (lines 143-187).                                     *)
(***************************************************************************)
\* The Debug text of the serde_json::Error that `expect` appends.
SerializeError == "Error(\"key must be a string\", line: 0, column: 0)"

ToValueExpected ==
    /\ pc = "call"
    /\ MatchesAllFields
    /\ IF ToValue(expected).ok
       THEN /\ expected_val' = ToValue(expected).val
            /\ pc' = "to_value_actual"
            /\ UNCHANGED <<outcome, message>>
       ELSE /\ outcome' = "expect_failed"
            /\ message' = "Could not serialize expected value: " \o SerializeError
            /\ pc' = "done"
            /\ UNCHANGED expected_val
    /\ UNCHANGED <<i, actual_val, diffs, inputs>>

ToValueActual ==
    /\ pc = "to_value_actual"
    /\ IF ToValue(actual).ok
       THEN /\ actual_val' = ToValue(actual).val
            /\ pc' = "guard"
            /\ UNCHANGED <<outcome, message>>
       ELSE /\ outcome' = "expect_failed"
            /\ message' = "Could not serialize actual value: " \o SerializeError
            /\ pc' = "done"
            /\ UNCHANGED actual_val
    /\ UNCHANGED <<i, expected_val, diffs, inputs>>

\* if expected_val != actual_val { ... }
Guard ==
    /\ pc = "guard"
    /\ IF ValueNe(expected_val, actual_val)
       THEN /\ pc' = "as_object_expected"
            /\ UNCHANGED outcome
       ELSE /\ pc' = "done"
            /\ outcome' = "pass"
    /\ UNCHANGED <<i, expected_val, actual_val, diffs, message, inputs>>

AsObjectExpected ==
    /\ pc = "as_object_expected"
    /\ IF IsObject(expected_val)
       THEN /\ pc' = "as_object_actual"
            /\ UNCHANGED <<outcome, message>>
       ELSE /\ outcome' = "expect_failed"
            /\ message' = "Expected value is not an object"
            /\ pc' = "done"
    /\ UNCHANGED <<i, expected_val, actual_val, diffs, inputs>>

AsObjectActual ==
    /\ pc = "as_object_actual"
    /\ IF IsObject(actual_val)
       THEN /\ diffs' = NewString
            /\ i' = 1
            /\ pc' = "expected_loop"
            /\ UNCHANGED <<outcome, message>>
       ELSE /\ outcome' = "expect_failed"
            /\ message' = "Actual value is not an object"
            /\ pc' = "done"
            /\ UNCHANGED <<i, diffs>>
    /\ UNCHANGED <<expected_val, actual_val, inputs>>

\* Mutant: the new line is put in front of the earlier ones.
ExpectedPushFront(chunks, expected_map, actual_map, key, expected_field_val) ==
    IF ContainsKey(actual_map, key)
    THEN IF ValueNe(expected_field_val, Get(actual_map, key))
         THEN <<MismatchLine(key, ValueRepr(expected_field_val),
                                  ValueRepr(Get(actual_map, key)))>> \o chunks
         ELSE chunks
    ELSE <<MissingFromActualLine(key, ValueRepr(expected_field_val))>> \o chunks

\* The body of `for (key, expected_field_val) in expected_map`
ExpectedPush(chunks, expected_map, actual_map, key, expected_field_val) ==
    IF ContainsKey(actual_map, key)
    THEN IF ValueNe(expected_field_val, Get(actual_map, key))
         THEN Append(chunks, MismatchLine(key, ValueRepr(expected_field_val),
                                               ValueRepr(Get(actual_map, key))))
         ELSE chunks
    ELSE Append(chunks, MissingFromActualLine(key, ValueRepr(expected_field_val)))

ExpectedKey ==
    /\ pc = "expected_loop"
    /\ i <= Len(expected_val.entries)
    /\ diffs' = ExpectedPush(diffs, expected_val.entries, actual_val.entries,
                             expected_val.entries[i].key, expected_val.entries[i].val)
    /\ i' = i + 1
    /\ UNCHANGED <<pc, expected_val, actual_val, outcome, message, inputs>>

ExpectedLoopEnd ==
    /\ pc = "expected_loop"
    /\ i > Len(expected_val.entries)
    /\ i' = 1
    /\ pc' = "actual_loop"
    /\ UNCHANGED <<expected_val, actual_val, diffs, outcome, message, inputs>>

\* Mutant: the second loop reports nothing.
ActualPushNothing(chunks, expected_map, key, actual_field_val) == chunks

\* The body of `for (key, actual_field_val) in actual_map`
ActualPush(chunks, expected_map, key, actual_field_val) ==
    IF ~ContainsKey(expected_map, key)
    THEN Append(chunks, MissingFromExpectedLine(key, ValueRepr(actual_field_val)))
    ELSE chunks

ActualKey ==
    /\ pc = "actual_loop"
    /\ i <= Len(actual_val.entries)
    /\ diffs' = ActualPush(diffs, expected_val.entries,
                           actual_val.entries[i].key, actual_val.entries[i].val)
    /\ i' = i + 1
    /\ UNCHANGED <<pc, expected_val, actual_val, outcome, message, inputs>>

AllFieldsAssert ==
    /\ pc = "actual_loop"
    /\ i > Len(actual_val.entries)
    /\ outcome' = AssertOutcome(diffs)
    /\ message' = AssertMessage(diffs)
    /\ pc' = "done"
    /\ UNCHANGED <<i, expected_val, actual_val, diffs, inputs>>

(***************************************************************************)
(* The caller invokes the macro a second time, in the same build and with  *)
(* the same field list, on the same values or after one field of either   *)
(* value has been given another value.  The locals of the first expansion  *)
(* are gone.                                                               *)
(***************************************************************************)
WithField(x, k, val) ==
    [x EXCEPT !.fields = [x.fields EXCEPT ![k] = [name |-> x.fields[k].name, val |-> val]]]

OneFieldChanged(x) ==
    IF x.kind # "struct" THEN {}
    ELSE UNION { { WithField(x, k, val) : val \in FieldVals(x.fields[k].name) } :
                 k \in 1..Len(x.fields) } \ {x}

NextRequest ==
    /\ pc = "done"
    /\ prev = <<>>
    /\ outcome # "compile_error"
    /\ prev' = <<[expected |-> expected, actual |-> actual, fields |-> fields,
                  outcome |-> outcome, message |-> message]>>
    /\ expected' \in {expected} \cup OneFieldChanged(expected)
    /\ actual' \in {actual} \cup OneFieldChanged(actual)
    /\ pc' = "call"
    /\ i' = 0
    /\ expected_val' = Unset
    /\ actual_val' = Unset
    /\ diffs' = <<>>
    /\ outcome' = "running"
    /\ message' = ""
    /\ UNCHANGED <<serde, fields>>

Next ==
    \/ CompileError
    \/ EnterSelected
    \/ SelectedField
    \/ SelectedAssert
    \/ ToValueExpected
    \/ ToValueActual
    \/ Guard
    \/ AsObjectExpected
    \/ AsObjectActual
    \/ ExpectedKey
    \/ ExpectedLoopEnd
    \/ ActualKey
    \/ AllFieldsAssert
    \/ NextRequest

Spec == Init /\ [][Next]_vars

(***************************************************************************)
(* Vocabulary of the properties.                                           *)
(***************************************************************************)
Done == pc = "done"

\* `x == y` on two values of one field: they are the same value, and not NaN.
Equal(x, y) == x = y /\ x.t # "f64::NAN"

\* The invocation was a selected-fields comparison and has finished.
SelectedDone ==
    Done /\ ~MatchesAllFields /\ Len(fields) >= 1 /\ outcome # "compile_error"

\* The invocation was an all-fields comparison and has finished.
AllFieldsDone == Done /\ serde /\ Len(fields) = 0

\* Both values serialize to records.
BothRecords ==
    /\ ToValue(expected).ok /\ ToValue(expected).val.tag = "Object"
    /\ ToValue(actual).ok /\ ToValue(actual).val.tag = "Object"

ExpectedMap == ToValue(expected).val.entries
ActualMap == ToValue(actual).val.entries

Range(seq) == {seq[k] : k \in 1..Len(seq)}

Indices(seq) == [k \in 1..Len(seq) |-> k]

Occurrences(seq, x) == Cardinality({k \in 1..Len(seq) : seq[k] = x})

\* isClean and reportString of the finished comparison
IsClean == outcome = "pass"
ReportString == message

\* The line of listed field f, as the selected-fields arm formats it.
FieldLine(f) == MismatchLine(f, Repr(Field(expected, f)), Repr(Field(actual, f)))

\* The line of key k of both mappings, as the all-fields arm formats it.
KeyLine(k) == MismatchLine(k, ValueRepr(Get(ExpectedMap, k)), ValueRepr(Get(ActualMap, k)))

\* The lines a selected-fields comparison owes: one per listed field, in the
\* order of the list, for the fields that are unequal.
SelectedLines ==
    LET idx == SelectSeq(Indices(fields),
                 LAMBDA k : ~Equal(Field(expected, fields[k]), Field(actual, fields[k])))
    IN  [j \in 1..Len(idx) |-> FieldLine(fields[idx[j]])]

\* The lines an all-fields comparison owes: those of expected's keys, in
\* expected's order, then those of the keys only actual has, in actual's order.
AllFieldsLines ==
    LET em == ExpectedMap
        am == ActualMap
        first == SelectSeq(Indices(em),
                   LAMBDA k : \/ em[k].key \notin Keys(am)
                              \/ em[k].val # Get(am, em[k].key))
        second == SelectSeq(Indices(am), LAMBDA k : am[k].key \notin Keys(em))
    IN  [j \in 1..Len(first) |->
            IF em[first[j]].key \in Keys(am)
            THEN KeyLine(em[first[j]].key)
            ELSE MissingFromActualLine(em[first[j]].key, ValueRepr(em[first[j]].val))]
        \o
        [j \in 1..Len(second) |->
            MissingFromExpectedLine(am[second[j]].key, ValueRepr(am[second[j]].val))]

(***************************************************************************)
(* C1.  In selected-fields mode, when every listed field of expected       *)
(* equals (PartialEq) the same field of actual, the comparison is clean    *)
(* and the report string is empty.                                         *)
(***************************************************************************)
ListedFieldsEqual ==
    \A k \in 1..Len(fields) :
        Equal(Field(expected, fields[k]), Field(actual, fields[k]))

C1_EqualFieldsClean ==
    (SelectedDone /\ ListedFieldsEqual) => (IsClean /\ ReportString = "")

C1_Witness ==
    /\ SelectedDone /\ ListedFieldsEqual
    /\ Len(fields) = 3 /\ Range(fields) = {"a", "b", "c"}
    /\ IsClean

(***************************************************************************)
(* C2.  In selected-fields mode the result depends on the listed fields    *)
(* only: two invocations with the same list whose values agree on every    *)
(* listed field give the same report string and the same isClean, and a    *)
(* field that is not listed never makes the comparison fail.               *)
(***************************************************************************)
AgreeOnListed(x, y) ==
    \A k \in 1..Len(fields) : Field(x, fields[k]) = Field(y, fields[k])

SomeUnlistedDiffers ==
    \E f \in (FieldNames(expected) \cap FieldNames(actual)) \ Range(fields) :
        ~Equal(Field(expected, f), Field(actual, f))

C2_OnlyListedFieldsMatter ==
    /\ (SelectedDone /\ prev # <<>>
          /\ prev[1].fields = fields
          /\ AgreeOnListed(prev[1].expected, expected)
          /\ AgreeOnListed(prev[1].actual, actual))
       => (ReportString = prev[1].message /\ outcome = prev[1].outcome)
    /\ (SelectedDone /\ ListedFieldsEqual /\ SomeUnlistedDiffers) => IsClean

C2_Witness ==
    /\ SelectedDone /\ prev # <<>>
    /\ AgreeOnListed(prev[1].expected, expected)
    /\ AgreeOnListed(prev[1].actual, actual)
    /\ <<prev[1].expected, prev[1].actual>> # <<expected, actual>>
    /\ ListedFieldsEqual /\ SomeUnlistedDiffers
    /\ IsClean /\ prev[1].outcome = "pass"

(***************************************************************************)
(* C3.  When expected and actual differ in one enumerated field f only:    *)
(* as claimed, the report is exactly one Mismatch line for f; as amended,  *)
(* a selected-fields report has that line once per occurrence of f in the  *)
(* field list (once when f is listed once), an all-fields report has it    *)
(* once, and no report has a line for another field.                       *)
(***************************************************************************)
SelectedDiffersOnlyIn(f) ==
    /\ f \in Range(fields)
    /\ ~Equal(Field(expected, f), Field(actual, f))
    /\ \A g \in Range(fields) \ {f} : Equal(Field(expected, g), Field(actual, g))

AllFieldsDiffersOnlyIn(f) ==
    /\ BothRecords
    /\ Keys(ExpectedMap) = Keys(ActualMap)
    /\ f \in Keys(ExpectedMap)
    /\ Get(ExpectedMap, f) # Get(ActualMap, f)
    /\ \A g \in Keys(ExpectedMap) \ {f} : Get(ExpectedMap, g) = Get(ActualMap, g)

C3_Original_ExactlyOneLine ==
    /\ \A f \in {"a", "b", "c"} :
         (SelectedDone /\ SelectedDiffersOnlyIn(f)) => diffs = <<FieldLine(f)>>
    /\ \A f \in {"a", "b", "c"} :
         (AllFieldsDone /\ AllFieldsDiffersOnlyIn(f)) => diffs = <<KeyLine(f)>>

C3_OneLinePerOccurrence ==
    /\ \A f \in {"a", "b", "c"} :
         (SelectedDone /\ SelectedDiffersOnlyIn(f)) =>
            /\ diffs = [k \in 1..Occurrences(fields, f) |-> FieldLine(f)]
            /\ ReportString = Concat(diffs)
            /\ ~IsClean
    /\ \A f \in {"a", "b", "c"} :
         (AllFieldsDone /\ AllFieldsDiffersOnlyIn(f)) =>
            /\ diffs = <<KeyLine(f)>>
            /\ ReportString = KeyLine(f)
            /\ ~IsClean

C3_Witness ==
    /\ SelectedDone /\ SelectedDiffersOnlyIn("b")
    /\ Len(fields) = 3 /\ Occurrences(fields, "b") = 2
    /\ Len(diffs) = 2
    /\ Field(expected, "b") = Str(1) /\ Field(actual, "b") = Str(2)
    /\ ReportString = "b: \"str\" != \"diff str\"\nb: \"str\" != \"diff str\"\n"

(***************************************************************************)
(* C4.  As claimed: the call aborts, by the assertion and with the report  *)
(* string as its message, exactly when a line was produced, and when none  *)
(* was produced the report is empty and the call does nothing.  As         *)
(* amended: the same, except that an all-fields call that produced no line *)
(* may also have panicked in one of its `expect`s (a value that does not   *)
(* serialize, or serialized values that differ and are not both records).  *)
(***************************************************************************)
Finished == Done /\ outcome # "compile_error"

SerializationFails ==
    \/ ~ToValue(expected).ok
    \/ ~ToValue(actual).ok
    \/ /\ ValueNe(ToValue(expected).val, ToValue(actual).val)
       /\ ~(IsObject(ToValue(expected).val) /\ IsObject(ToValue(actual).val))

C4_Original_AbortIffLine ==
    Finished =>
        /\ (outcome = "assertion_failed") <=> (diffs # <<>>)
        /\ (outcome = "assertion_failed") => (message = Concat(diffs))
        /\ (diffs = <<>>) => (outcome = "pass" /\ message = "")

C4_AbortIffLineUnlessExpect ==
    Finished =>
        /\ (outcome = "assertion_failed") <=> (diffs # <<>>)
        /\ (outcome = "assertion_failed") => (message = Concat(diffs) /\ message # "")
        /\ (diffs = <<>>) =>
              \/ outcome = "pass" /\ message = ""
              \/ outcome = "expect_failed" /\ AllFieldsDone /\ SerializationFails
        /\ (outcome = "expect_failed") => (AllFieldsDone /\ SerializationFails)

C4_Witness ==
    /\ AllFieldsDone /\ BothRecords
    /\ outcome = "assertion_failed"
    /\ Len(diffs) >= 2
    /\ message = Concat(diffs)

(***************************************************************************)
(* C5.  In all-fields mode, with both values serialized to records: every  *)
(* key of actual's mapping that expected's lacks has its "field missing    *)
(* from expected" line in the report, every key of expected's mapping that *)
(* actual's lacks has its "field missing from actual" line, whatever the   *)
(* other fields do, and a key of both mappings has no such line.           *)
(***************************************************************************)
FieldReprs == {ValueRepr(SerializePrim(x)) : x \in AllVals}

C5_MissingFieldLines ==
    (AllFieldsDone /\ BothRecords) =>
        /\ \A k \in Keys(ActualMap) \ Keys(ExpectedMap) :
              MissingFromExpectedLine(k, ValueRepr(Get(ActualMap, k))) \in Range(diffs)
        /\ \A k \in Keys(ExpectedMap) \ Keys(ActualMap) :
              MissingFromActualLine(k, ValueRepr(Get(ExpectedMap, k))) \in Range(diffs)
        /\ \A k \in Keys(ExpectedMap) \cap Keys(ActualMap) : \A r \in FieldReprs :
              /\ MissingFromExpectedLine(k, r) \notin Range(diffs)
              /\ MissingFromActualLine(k, r) \notin Range(diffs)
        /\ ReportString = Concat(diffs)

C5_Witness ==
    /\ AllFieldsDone /\ BothRecords
    /\ Keys(ExpectedMap) = {"a", "c"} /\ Keys(ActualMap) = {"b"}
    /\ "b: field missing from expected: String(\"str\")\n" \in Range(diffs)
    /\ "a: field missing from actual: Number(10)\n" \in Range(diffs)
    /\ "c: field missing from actual: Null\n" \in Range(diffs)

(***************************************************************************)
(* C6.  The report is the concatenation of one line per unequal or missing *)
(* field, in enumeration order: the order of the field list in             *)
(* selected-fields mode; in all-fields mode the lines of expected's keys   *)
(* in expected's order, then those of the keys only actual has, in         *)
(* actual's order.                                                         *)
(***************************************************************************)
C6_EnumerationOrder ==
    /\ SelectedDone =>
          (diffs = SelectedLines /\ ReportString = Concat(SelectedLines))
    /\ (AllFieldsDone /\ BothRecords) =>
          (diffs = AllFieldsLines /\ ReportString = Concat(AllFieldsLines))

C6_Witness ==
    /\ AllFieldsDone /\ BothRecords
    /\ ReportString = "b: field missing from actual: String(\"str\")\n"
                   \o "c: field missing from expected: Null\n"
                   \o "a: field missing from expected: Number(11)\n"

(***************************************************************************)
(* C7.  As claimed: an all-fields call fails with a serialization error    *)
(* whenever one of the two values does not convert to a keyed mapping,     *)
(* also when both serialize to the same value that is not a record; it     *)
(* then makes no report and does not return clean.                         *)
(***************************************************************************)
NotBothRecords == ~BothRecords

C7_NonRecordAlwaysFails ==
    (AllFieldsDone /\ NotBothRecords) =>
        (outcome = "expect_failed" /\ diffs = <<>> /\ ~IsClean)

(***************************************************************************)
(* C8.  Running the same request twice gives the same report string and    *)
(* the same isClean, and no step of an invocation changes expected or      *)
(* actual.                                                                 *)
(***************************************************************************)
SameRequest ==
    /\ prev # <<>>
    /\ prev[1].expected = expected
    /\ prev[1].actual = actual
    /\ prev[1].fields = fields

C8_SameResult ==
    (Done /\ SameRequest) =>
        (ReportString = prev[1].message /\ outcome = prev[1].outcome)

C9_Original_EmptyListPasses ==
    (Done /\ Len(fields) = 0) => (IsClean /\ ReportString = "")

C9_EmptyListIsNotSelected ==
    (Done /\ Len(fields) = 0) =>
        /\ ~serde => (outcome = "compile_error" /\ message = "" /\ diffs = <<>>)
        /\ serde =>
             /\ outcome # "compile_error"
             /\ IsClean <=> /\ ToValue(expected).ok
                            /\ ToValue(actual).ok
                            /\ ~ValueNe(ToValue(expected).val, ToValue(actual).val)

C9_Witness ==
    /\ Done /\ Len(fields) = 0 /\ ~serde
    /\ expected = actual /\ expected.kind = "struct"
    /\ outcome = "compile_error"

(***************************************************************************)
(* C10.  In all-fields mode, with both values serialized to records, the   *)
(* guard `expected_val != actual_val` and the two loops agree: the call    *)
(* passes exactly when the two mappings are equal; once the guarded block  *)
(* has run its loops `diffs` holds at least one line, so its assertion     *)
(* fails; and when the guard is false the loops would have found nothing.  *)
(***************************************************************************)
SameMapping ==
    /\ Keys(ExpectedMap) = Keys(ActualMap)
    /\ \A k \in Keys(ExpectedMap) : Get(ExpectedMap, k) = Get(ActualMap, k)

C10_GuardAgreesWithLoops ==
    /\ (pc = "actual_loop" /\ i > Len(actual_val.entries)) => diffs # <<>>
    /\ (AllFieldsDone /\ BothRecords) =>
          /\ outcome \in {"pass", "assertion_failed"}
          /\ IsClean <=> SameMapping
          /\ IsClean <=> (AllFieldsLines = <<>>)
          /\ IsClean <=> (diffs = <<>>)

C10_Witness ==
    /\ AllFieldsDone /\ BothRecords
    /\ IsClean
    /\ expected # actual
    /\ ExpectedMap # ActualMap

====
